---- MODULE Spec2Model ----
(***************************************************************************)
(* Device-aware admission control of the distribution API:                 *)
(* DeviceRateLimitStore and DeviceRateLimit of                             *)
(* src/middleware/enhancedValidation.ts, the application wiring of         *)
(* src/app.ts and the device controller's reset endpoint.                  *)
(*                                                                         *)
(* Time is the value of Date.now() in milliseconds.  A device id is the    *)
(* sequence of its characters; the empty sequence is the empty string and  *)
(* also stands for an absent header (both are falsy in the source).        *)
(***************************************************************************)
EXTENDS Integers, Sequences, FiniteSets, TLC

VARIABLES given, options, members, store, cleanupInterval, clock, hist, last

vars == <<given, options, members, store, cleanupInterval, clock, hist, last>>

\* what construction fixes for the life of the instance
config == <<given, options, members>>

----------------------------------------------------------------------------
(* Bounds of the model *)

MaxTicks == 4       \* the clock runs from 0 to MaxTicks * TickMs
MaxSkew == 1        \* clock ticks that may pass between two Date.now() reads of one call
MaxCount == 4       \* largest count an entry is driven to

TickMs == 500       \* granularity of the modelled clock, in ms
MaxIdHeaders == 2    \* device id headers a request sends at most, in identity resolution

----------------------------------------------------------------------------
(* Strings *)

UpperChars == <<"A","B","C","D","E","F","G","H","I","J","K","L","M",
                "N","O","P","Q","R","S","T","U","V","W","X","Y","Z">>
LowerChars == <<"a","b","c","d","e","f","g","h","i","j","k","l","m",
                "n","o","p","q","r","s","t","u","v","w","x","y","z">>
DigitChars == <<"0","1","2","3","4","5","6","7","8","9">>

Range(f) == { f[i] : i \in DOMAIN f }

\* String.prototype.toLowerCase on one character (the /i flag of a pattern)
UpperToLower ==
    [c \in Range(UpperChars) |-> LowerChars[CHOOSE i \in DOMAIN UpperChars : UpperChars[i] = c]]

ToLower(c) == IF c \in DOMAIN UpperToLower THEN UpperToLower[c] ELSE c

LowerCase(s) == [i \in DOMAIN s |-> ToLower(s[i])]

\* the sample device ids sent by clients
IdA == <<"d","e","v","-","A","0","0","1">>
IdB == <<"d","e","v","_","B","0","0","2">>
IdShort == <<"i","n","v","a","l","i","d">>
NoValue == <<>>

----------------------------------------------------------------------------
(* DeviceRateLimit.isValidDeviceId *)

\* /^[a-zA-Z0-9\-_]+$/
PolicyChars == Range(UpperChars) \cup Range(LowerChars) \cup Range(DigitChars) \cup {"-", "_"}

\* /^(test|fake|dummy|null|undefined|admin|root)$/i
PolicyWords ==
    { <<"t","e","s","t">>, <<"f","a","k","e">>, <<"d","u","m","m","y">>,
      <<"n","u","l","l">>, <<"u","n","d","e","f","i","n","e","d">>,
      <<"a","d","m","i","n">>, <<"r","o","o","t">> }

\* /^(.)\1{7,}$/
RepeatedChar(s) == Len(s) >= 8 /\ \A i \in DOMAIN s : s[i] = s[1]

\* /^(0+|1+|a+|z+)$/i
AllSameOf(s, cs) ==
    Len(s) >= 1 /\ \E c \in cs : \A i \in DOMAIN s : ToLower(s[i]) = c

isValidDeviceId(deviceId) ==
    IF deviceId = NoValue THEN FALSE
    ELSE IF Len(deviceId) < 8 \/ Len(deviceId) > 128 THEN FALSE
    ELSE IF ~ (\A i \in DOMAIN deviceId : deviceId[i] \in PolicyChars) THEN FALSE
    ELSE ~ ( \/ LowerCase(deviceId) \in PolicyWords
             \/ RepeatedChar(deviceId)
             \/ AllSameOf(deviceId, {"0", "1", "a", "z"}) )

----------------------------------------------------------------------------
(* validateDeviceId of src/utils/deviceId.ts, used by the device controller *)

\* /^[a-zA-Z0-9\-_.]+$/
UtilChars == PolicyChars \cup {"."}

\* /^(test|fake|dummy|null|undefined|admin|root|anonymous|guest)$/i
UtilWords ==
    PolicyWords \cup { <<"a","n","o","n","y","m","o","u","s">>, <<"g","u","e","s","t">> }

\* /^(12345|abcde|qwerty|password|default)$/i
CommonWords ==
    { <<"1","2","3","4","5">>, <<"a","b","c","d","e">>, <<"q","w","e","r","t","y">>,
      <<"p","a","s","s","w","o","r","d">>, <<"d","e","f","a","u","l","t">> }

\* /^[0-9]{1,10}$/
SimpleNumber(s) ==
    Len(s) >= 1 /\ Len(s) <= 10 /\ \A i \in DOMAIN s : s[i] \in Range(DigitChars)

\* validateDeviceId() without the upper bound on the length
validateDeviceId_noUpperLength(deviceId) ==
    IF deviceId = NoValue THEN FALSE
    ELSE IF Len(deviceId) < 8 THEN FALSE
    ELSE IF ~ (\A i \in DOMAIN deviceId : deviceId[i] \in UtilChars) THEN FALSE
    ELSE ~ ( \/ LowerCase(deviceId) \in UtilWords
             \/ RepeatedChar(deviceId)
             \/ AllSameOf(deviceId, {"0", "1", "a", "z", "x"})
             \/ LowerCase(deviceId) \in CommonWords
             \/ SimpleNumber(deviceId) )

validateDeviceId(deviceId) ==
    IF deviceId = NoValue THEN FALSE
    ELSE IF Len(deviceId) < 8 \/ Len(deviceId) > 128 THEN FALSE
    ELSE IF ~ (\A i \in DOMAIN deviceId : deviceId[i] \in UtilChars) THEN FALSE
    ELSE ~ ( \/ LowerCase(deviceId) \in UtilWords
             \/ RepeatedChar(deviceId)
             \/ AllSameOf(deviceId, {"0", "1", "a", "z", "x"})
             \/ LowerCase(deviceId) \in CommonWords
             \/ SimpleNumber(deviceId) )

\* a JavaScript value handed to validateDeviceId: its typeof and, for a
\* string or a number, its characters (null is the object without any)
JsString(chars) == [typeof |-> "string", value |-> chars]
JsNumber(digits) == [typeof |-> "number", value |-> digits]
JsUndefined == [typeof |-> "undefined", value |-> NoValue]
JsNull == [typeof |-> "object", value |-> NoValue]
JsObject == [typeof |-> "object", value |-> <<"{", "}">>]

\* !v
Falsy(v) ==
    \/ v.value = NoValue
    \/ v.typeof = "number" /\ v.value = <<"0">>

\* validateDeviceId on any value: the typeof guard of its first statement
validateDeviceIdValue(v) ==
    IF Falsy(v) \/ v.typeof # "string" THEN FALSE ELSE validateDeviceId(v.value)

----------------------------------------------------------------------------
(* DeviceRateLimitOptions and the constructor of DeviceRateLimit *)

Undefined == <<>>
Given(v) == <<v>>

\* a || b on an optional number: undefined and 0 are falsy
OrNumber(v, d) == IF v = Undefined THEN d ELSE IF v[1] = 0 THEN d ELSE v[1]
\* a || b on an optional boolean: undefined and false are falsy
OrBoolean(v, d) == IF v = Undefined THEN d ELSE IF v[1] THEN TRUE ELSE d
\* a || b on an optional list: only undefined is falsy
OrList(v, d) == IF v = Undefined THEN d ELSE v[1]

DefaultDeviceIdHeaders == <<"x-device-id", "device-id", "x-client-id">>
AppDeviceIdHeaders == <<"x-device-id", "device-id", "x-client-id", "client-id">>

DefaultWindowMs == 15 * 60 * 1000
DefaultMaxRequests == 100
DefaultStatusCode == 429

Constructor(o) ==
    [ windowMs        |-> OrNumber(o.windowMs, DefaultWindowMs),
      maxRequests     |-> OrNumber(o.maxRequests, DefaultMaxRequests),
      statusCode      |-> OrNumber(o.statusCode, DefaultStatusCode),
      trustProxy      |-> OrBoolean(o.trustProxy, FALSE),
      requireDeviceId |-> OrBoolean(o.requireDeviceId, FALSE),
      fallbackToIp    |-> OrBoolean(o.fallbackToIp, TRUE),
      deviceIdHeaders |-> OrList(o.deviceIdHeaders, DefaultDeviceIdHeaders) ]

\* createDeviceRateLimit({...}) of src/app.ts, for the environment's settings
AppOptions(windowMs, maxRequests, requireDeviceId, fallbackToIp) ==
    [ windowMs        |-> Given(windowMs),
      maxRequests     |-> Given(maxRequests),
      requireDeviceId |-> Given(requireDeviceId),
      fallbackToIp    |-> Given(fallbackToIp),
      statusCode      |-> Given(429),
      trustProxy      |-> Given(TRUE),
      deviceIdHeaders |-> Given(AppDeviceIdHeaders) ]

\* new DeviceRateLimit({windowMs, maxRequests}) with everything else left out
BareOptions(windowMs, maxRequests) ==
    [ windowMs        |-> windowMs,
      maxRequests     |-> maxRequests,
      requireDeviceId |-> Undefined,
      fallbackToIp    |-> Undefined,
      statusCode      |-> Undefined,
      trustProxy      |-> Undefined,
      deviceIdHeaders |-> Undefined ]

WindowMs == 1000
MaxRequests == 2

OptionInputs ==
    { AppOptions(WindowMs, MaxRequests, rq, fb) : rq \in BOOLEAN, fb \in BOOLEAN }

DirectInputs == { BareOptions(Given(WindowMs), Given(MaxRequests)) }

\* The public members of a DeviceRateLimit.  createDeviceRateLimit() hands
\* out the middleware only and keeps no reference to the instance; code that
\* constructs the class itself holds them all.
Members == {"middleware", "resetDevice", "getDeviceStatus", "destroy"}

createDeviceRateLimit(o) ==
    [given |-> o, options |-> Constructor(o), members |-> {"middleware"}]

newDeviceRateLimit(o) ==
    [given |-> o, options |-> Constructor(o), members |-> Members]

----------------------------------------------------------------------------
(* Requests *)

HeaderNames == Range(AppDeviceIdHeaders)

\* req.ip (proxy aware) and req.connection.remoteAddress
ProxyIp == "203.0.113.7"
RemoteAddress == "10.0.0.1"

Req(xDeviceId, clientId) ==
    [ headers |-> [h \in HeaderNames |->
                     IF h = "x-device-id" THEN xDeviceId
                     ELSE IF h = "client-id" THEN clientId ELSE NoValue],
      ip |-> ProxyIp, remoteAddress |-> RemoteAddress ]

\* the sample requests: no device id, a valid one, an invalid one, and a
\* device id in the last candidate header (which only the application's
\* header list names) behind an invalid or a valid first header
Requests ==
    { Req(NoValue, NoValue), Req(IdA, NoValue), Req(IdShort, NoValue),
      Req(IdShort, IdA), Req(IdA, IdB) }

\* extractDeviceId() that gives up at the first header holding an invalid value
RECURSIVE extractFrom_stopsAtInvalid(_, _, _)
extractFrom_stopsAtInvalid(req, headers, i) ==
    IF i > Len(headers) THEN NoValue
    ELSE LET deviceId == req.headers[headers[i]]
         IN IF deviceId = NoValue THEN extractFrom_stopsAtInvalid(req, headers, i + 1)
            ELSE IF isValidDeviceId(deviceId) THEN deviceId
            ELSE NoValue

\* DeviceRateLimit.extractDeviceId: the first configured header with a valid value
RECURSIVE extractFrom(_, _, _)
extractFrom(req, headers, i) ==
    IF i > Len(headers) THEN NoValue
    ELSE LET deviceId == req.headers[headers[i]]
         IN IF deviceId # NoValue /\ isValidDeviceId(deviceId)
            THEN deviceId
            ELSE extractFrom(req, headers, i + 1)

extractDeviceId(opts, req) == extractFrom(req, opts.deviceIdHeaders, 1)

\* DeviceRateLimit.getClientIp
getClientIp(opts, req) ==
    IF opts.trustProxy
    THEN IF req.ip # "" THEN req.ip
         ELSE IF req.remoteAddress # "" THEN req.remoteAddress ELSE "unknown"
    ELSE IF req.remoteAddress # "" THEN req.remoteAddress ELSE "unknown"

\* req.get(name): the value of a header, nothing when the request has none
Header(req, name) == IF name \in DOMAIN req.headers THEN req.headers[name] ELSE NoValue

\* createHash("sha256").update(components.join("|")).digest("hex").substring(0, n):
\* the digest is kept symbolic, as its algorithm, the number of hexadecimal
\* characters kept and the components it is computed from
HexDigest(components, n) == <<"sha256", n, components>>
HexLength(fingerprint) == fingerprint[2]

\* DeviceRateLimit.generateDeviceFingerprint
generateDeviceFingerprint(opts, req) ==
    HexDigest(<<Header(req, "user-agent"), Header(req, "accept-language"),
                Header(req, "accept-encoding"), Header(req, "accept"),
                <<getClientIp(opts, req)>>>>, 16)

Key(scope, id) == [scope |-> scope, id |-> id]

\* defaultKeyGenerator() that tries the ip fallback before the device id
defaultKeyGenerator_ipFirst(opts, req) ==
    LET deviceId == extractDeviceId(opts, req)
    IN IF ~ opts.requireDeviceId /\ opts.fallbackToIp
       THEN [threw |-> FALSE, key |-> [scope |-> "ip", id |-> <<getClientIp(opts, req)>>],
             deviceId |-> NoValue]
       ELSE IF deviceId # NoValue
       THEN [threw |-> FALSE, key |-> [scope |-> "device", id |-> deviceId], deviceId |-> deviceId]
       ELSE [threw |-> TRUE, key |-> [scope |-> "none", id |-> NoValue], deviceId |-> NoValue]

\* defaultKeyGenerator() that considers the ip fallback before requireDeviceId
defaultKeyGenerator_fallbackFirst(opts, req) ==
    LET deviceId == extractDeviceId(opts, req)
    IN IF deviceId # NoValue
       THEN [threw |-> FALSE, key |-> Key("device", deviceId), deviceId |-> deviceId]
       ELSE IF opts.fallbackToIp
       THEN [threw |-> FALSE, key |-> Key("ip", <<getClientIp(opts, req)>>), deviceId |-> NoValue]
       ELSE IF opts.requireDeviceId
       THEN [threw |-> TRUE, key |-> Key("none", NoValue), deviceId |-> NoValue]
       ELSE [threw |-> FALSE, key |-> Key("fingerprint", generateDeviceFingerprint(opts, req)),
             deviceId |-> NoValue]

\* DeviceRateLimit.defaultKeyGenerator: the key `<scope>:<id>`, or the thrown
\* error.  An address is one atom: the id of an ip key is the 1-tuple of it.
defaultKeyGenerator(opts, req) ==
    LET deviceId == extractDeviceId(opts, req)
    IN IF deviceId # NoValue
       THEN [threw |-> FALSE, key |-> Key("device", deviceId), deviceId |-> deviceId]
       ELSE IF opts.requireDeviceId
       THEN [threw |-> TRUE, key |-> Key("none", NoValue), deviceId |-> NoValue]
       ELSE IF opts.fallbackToIp
       THEN [threw |-> FALSE, key |-> Key("ip", <<getClientIp(opts, req)>>), deviceId |-> NoValue]
       ELSE [threw |-> FALSE, key |-> Key("fingerprint", generateDeviceFingerprint(opts, req)),
             deviceId |-> NoValue]

----------------------------------------------------------------------------
(* DeviceRateLimitStore: a Map from key to RateLimitEntry *)

RateLimitEntry(count, resetTime, firstRequest) ==
    [count |-> count, resetTime |-> resetTime, firstRequest |-> firstRequest]

EmptyMap == [k \in {} |-> 0]

MapSet(m, k, v) == [x \in DOMAIN m \cup {k} |-> IF x = k THEN v ELSE m[x]]
MapDelete(m, k) == [x \in DOMAIN m \ {k} |-> m[x]]

\* get() with the expiry test written now >= resetTime
get_expiresAtWindowEnd(st, key, t) ==
    IF key \in DOMAIN st /\ t >= st[key].resetTime
    THEN [store |-> MapDelete(st, key), found |-> FALSE]
    ELSE [store |-> st, found |-> key \in DOMAIN st]

\* get(key) at Date.now() = t: the store afterwards and whether an entry is returned
get(st, key, t) ==
    IF key \in DOMAIN st /\ t > st[key].resetTime
    THEN [store |-> MapDelete(st, key), found |-> FALSE]
    ELSE [store |-> st, found |-> key \in DOMAIN st]

set(st, key, entry) == MapSet(st, key, entry)

\* increment() that returns the entry as it was before count++
increment_returnsStale(st, windowMs, key, now, t) ==
    LET g == get(st, key, t)
    IN IF g.found
       THEN LET existing == [g.store[key] EXCEPT !.count = @ + 1]
            IN [store |-> set(g.store, key, existing), entry |-> g.store[key], created |-> FALSE]
       ELSE LET newEntry == RateLimitEntry(1, now + windowMs, now)
            IN [store |-> set(g.store, key, newEntry), entry |-> newEntry, created |-> TRUE]

\* increment() that looks the key up in the map directly, without get()'s expiry
increment_revivesExpired(st, windowMs, key, now, t) ==
    IF key \in DOMAIN st
    THEN LET existing == [st[key] EXCEPT !.count = @ + 1]
         IN [store |-> set(st, key, existing), entry |-> existing, created |-> FALSE]
    ELSE LET newEntry == RateLimitEntry(1, now + windowMs, now)
         IN [store |-> set(st, key, newEntry), entry |-> newEntry, created |-> TRUE]

\* increment() that restarts the window on every request (a sliding window)
increment_slidesWindow(st, windowMs, key, now, t) ==
    LET g == get(st, key, t)
    IN IF g.found
       THEN LET existing == [g.store[key] EXCEPT !.count = @ + 1, !.resetTime = now + windowMs]
            IN [store |-> set(g.store, key, existing), entry |-> existing, created |-> FALSE]
       ELSE LET newEntry == RateLimitEntry(1, now + windowMs, now)
            IN [store |-> set(g.store, key, newEntry), entry |-> newEntry, created |-> TRUE]

\* increment(key): now is read first, get(key) reads the clock again at t
increment(st, windowMs, key, now, t) ==
    LET g == get(st, key, t)
    IN IF g.found
       THEN LET existing == [g.store[key] EXCEPT !.count = @ + 1]
            IN [store |-> set(g.store, key, existing), entry |-> existing, created |-> FALSE]
       ELSE LET newEntry == RateLimitEntry(1, now + windowMs, now)
            IN [store |-> set(g.store, key, newEntry), entry |-> newEntry, created |-> TRUE]

\* reset() that clears the whole map
reset_clearsAll(st, key) == EmptyMap

\* reset() that deletes nothing
reset_keepsEntry(st, key) == st

reset(st, key) == MapDelete(st, key)

\* cleanup() that removes an entry from its windowEnd on
cleanup_atWindowEnd(st, now) ==
    [k \in { x \in DOMAIN st : ~ (now >= st[x].resetTime) } |-> st[k]]

\* cleanup(): for (const [key, entry] of this.store.entries())
\*              if (now > entry.resetTime) this.store.delete(key)
cleanup(st, now) ==
    [k \in { x \in DOMAIN st : ~ (now > st[x].resetTime) } |-> st[k]]

----------------------------------------------------------------------------
(* Arithmetic of the decision *)

Max(a, b) == IF a >= b THEN a ELSE b

\* Math.ceil(n / 1000) for an integer n of either sign
CeilDiv1000(n) == IF n % 1000 = 0 THEN n \div 1000 ELSE (n \div 1000) + 1

\* remaining without the clamp at 0
remaining_unclamped(opts, entry) == opts.maxRequests - entry.count

\* const remaining = Math.max(0, this.options.maxRequests - entry.count)
remaining(opts, entry) == Max(0, opts.maxRequests - entry.count)

\* the limit test one request too late
rateLimitExceeded_offByOne(opts, entry) == entry.count > opts.maxRequests + 1

\* the limit test one request too early
rateLimitExceeded_atLimit(opts, entry) == entry.count >= opts.maxRequests

\* if (entry.count > this.options.maxRequests)
rateLimitExceeded(opts, entry) == entry.count > opts.maxRequests

----------------------------------------------------------------------------
(* State *)

\* given:   the options object passed to the constructor
\* options: the options of the DeviceRateLimit instance
\* members: the members of the instance its creator can call
\* store:   the Map of its DeviceRateLimitStore
\* cleanupInterval: whether the store's sweep timer is armed
\* clock:   Date.now()
\* last:    what the latest step produced: the response and the decision of
\*          a request, the value an administrative method returned
\* hist[key]: the decisions taken on the entry now stored under key, oldest
\* first: the count increment() returned and whether next() was called
Decision(count, allowed) == [count |-> count, allowed |-> allowed]

Now(d) == clock + d * TickMs

InTime(d) == Now(d) <= MaxTicks * TickMs

Constructed(made) ==
    /\ given = made.given
    /\ options = made.options
    /\ members = made.members
    /\ store = EmptyMap
    /\ cleanupInterval = TRUE
    /\ hist = EmptyMap
    /\ clock = 0
    /\ last = [op |-> "none"]

\* the application: src/app.ts wires createDeviceRateLimit(...) into express
Init == \E o \in OptionInputs : Constructed(createDeviceRateLimit(o))

\* code that constructs a DeviceRateLimit itself and keeps the instance
InstanceInit == \E o \in DirectInputs : Constructed(newDeviceRateLimit(o))

----------------------------------------------------------------------------
(* DeviceRateLimit.middleware: one request through the admission policy.   *)
(* The body has no await, so it runs to completion; d1 and d2 are the      *)
(* clock ticks that pass between its Date.now() reads.  last is what the   *)
(* latest step produced.                                                   *)

\* the catch branch for the error thrown by defaultKeyGenerator
IdentityRequired(req) ==
    [ op |-> "middleware", req |-> req, outcome |-> "required", status |-> 400,
      nextCalls |-> 0, requiredHeaders |-> options.deviceIdHeaders ]

\* what the try block can throw besides the required-identity error: the
\* configured keyGenerator or the store's increment raising an error
Faults == {"keyGenerator", "increment"}

\* a catch branch that answers with a server error instead
FailOpen_answers500 ==
    [ op |-> "middleware", outcome |-> "failopen", status |-> 500, nextCalls |-> 0 ]

\* the catch branch for any other error: it is logged, whatever it is, and
\* next() is called
FailOpen ==
    [ op |-> "middleware", outcome |-> "failopen", status |-> 0, nextCalls |-> 1 ]

\* the headers with X-RateLimit-Reset rounded down
RateLimitHeaders_floor(entry, rem) ==
    [ limit     |-> options.maxRequests,
      remaining |-> rem,
      reset     |-> entry.resetTime \div 1000,
      window    |-> options.windowMs ]

\* res.set({X-RateLimit-Limit, -Remaining, -Reset, -Window})
RateLimitHeaders(entry, rem) ==
    [ limit     |-> options.maxRequests,
      remaining |-> rem,
      reset     |-> CeilDiv1000(entry.resetTime),
      window    |-> options.windowMs ]

middleware(req, d1, d2) ==
    LET kg == defaultKeyGenerator(options, req)
    IN IF kg.threw
       THEN /\ d1 = 0 /\ d2 = 0
            /\ last' = IdentityRequired(req)
            /\ UNCHANGED <<store, hist, clock>>
       ELSE LET key == kg.key
                inc == increment(store, options.windowMs, key, Now(0), Now(d1))
                entry == inc.entry
                rem == remaining(options, entry)
                exceeded == rateLimitExceeded(options, entry)
                rendered == IF exceeded THEN Now(d1 + d2) ELSE Now(d1)
                before == IF inc.created THEN <<>> ELSE hist[key]
            IN /\ entry.count <= MaxCount
               /\ exceeded \/ d2 = 0
               /\ store' = inc.store
               /\ hist' = [k \in DOMAIN inc.store |->
                             IF k = key THEN Append(before, Decision(entry.count, ~exceeded))
                             ELSE hist[k]]
               /\ clock' = rendered
               /\ last' = [ op |-> "middleware", req |-> req, key |-> key,
                            deviceId |-> kg.deviceId,
                            count |-> entry.count, resetTime |-> entry.resetTime,
                            created |-> inc.created, checkedAt |-> Now(d1),
                            replaced |-> IF inc.created /\ key \in DOMAIN store
                                         THEN store[key].count ELSE 0,
                            remaining |-> rem,
                            headers |-> RateLimitHeaders(entry, rem),
                            outcome |-> IF exceeded THEN "denied" ELSE "next",
                            status |-> IF exceeded THEN options.statusCode ELSE 0,
                            nextCalls |-> IF exceeded THEN 0 ELSE 1,
                            retryAfter |-> IF exceeded
                                           THEN CeilDiv1000(entry.resetTime - rendered)
                                           ELSE 0 ]

middlewareFault(fault) ==
    /\ fault \in Faults
    /\ last' = FailOpen
    /\ UNCHANGED <<store, hist, clock>>

Middleware ==
    /\ \/ \E req \in Requests : \E d1 \in 0..MaxSkew : \E d2 \in 0..MaxSkew :
             /\ InTime(d1 + d2)
             /\ middleware(req, d1, d2)
       \/ \E fault \in Faults : middlewareFault(fault)
    /\ UNCHANGED <<config, cleanupInterval>>

----------------------------------------------------------------------------
(* The administrative methods of DeviceRateLimit *)

AdminIds == {IdA, IdShort}

\* DeviceRateLimit.resetDevice: the key is built from the argument as it is
\* and deleted; the method has no statement that throws
resetDevice(deviceId) ==
    LET key == Key("device", deviceId)
    IN /\ store' = reset(store, key)
       /\ hist' = [k \in DOMAIN store' |-> hist[k]]
       /\ last' = [ op |-> "resetDevice", deviceId |-> deviceId, threw |-> FALSE,
                    removed |-> IF key \in DOMAIN store THEN store[key].count ELSE 0 ]
       /\ UNCHANGED <<config, cleanupInterval, clock>>

ResetDevice ==
    /\ "resetDevice" \in members
    /\ \E deviceId \in AdminIds : resetDevice(deviceId)

\* a status query that counts itself as a request
getDeviceStatus_counts(deviceId, d1, d2) ==
    LET key == Key("device", deviceId)
        inc == increment(store, options.windowMs, key, Now(0), Now(d1))
    IN /\ d2 = 0
       /\ inc.entry.count <= MaxCount
       /\ store' = inc.store
       /\ hist' = [k \in DOMAIN inc.store |-> IF k \in DOMAIN hist THEN hist[k] ELSE <<>>]
       /\ clock' = Now(d1)
       /\ last' = [ op |-> "status", deviceId |-> deviceId, found |-> TRUE,
                    expired |-> FALSE, checkedAt |-> Now(d1),
                    count |-> inc.entry.count,
                    remaining |-> remaining(options, inc.entry),
                    resetTime |-> inc.entry.resetTime ]
       /\ UNCHANGED <<config, cleanupInterval>>

\* DeviceRateLimit.getDeviceStatus: get(key) at Now(d1); without an entry the
\* answer's resetTime reads the clock once more
getDeviceStatus(deviceId, d1, d2) ==
    LET key == Key("device", deviceId)
        g == get(store, key, Now(d1))
    IN /\ store' = g.store
       /\ hist' = [k \in DOMAIN g.store |-> hist[k]]
       /\ g.found => d2 = 0
       /\ IF ~ g.found
          THEN /\ clock' = Now(d1 + d2)
               /\ last' = [ op |-> "status", deviceId |-> deviceId, found |-> FALSE,
                            expired |-> key \in DOMAIN store,
                            checkedAt |-> Now(d1), count |-> 0,
                            remaining |-> options.maxRequests,
                            resetTime |-> Now(d1 + d2) + options.windowMs ]
          ELSE /\ clock' = Now(d1)
               /\ last' = [ op |-> "status", deviceId |-> deviceId, found |-> TRUE,
                            expired |-> FALSE,
                            checkedAt |-> Now(d1), count |-> g.store[key].count,
                            remaining |-> remaining(options, g.store[key]),
                            resetTime |-> g.store[key].resetTime ]
       /\ UNCHANGED <<config, cleanupInterval>>

GetDeviceStatus ==
    /\ "getDeviceStatus" \in members
    /\ \E deviceId \in AdminIds : \E d1 \in 0..MaxSkew : \E d2 \in 0..MaxSkew :
          /\ InTime(d1 + d2)
          /\ getDeviceStatus(deviceId, d1, d2)

----------------------------------------------------------------------------
(* The reset endpoint of the device controller,                            *)
(* POST /api/device/:deviceId/reset-rate-limit.  It handles a request the  *)
(* admission middleware has forwarded.                                     *)

Roles == {"admin", "owner", "customer"}

\* authorize(...roles) of the auth middleware, for an authenticated caller:
\* the response it ends the request with, or nothing when it calls next().
\* A message is the sequence of the fragments it is put together from.
authorize(roles, role) ==
    IF role \notin Range(roles)
    THEN Given([ status |-> 403,
                 message |-> <<"Role '", role, "' tidak diizinkan mengakses rute ini. ",
                               "Role yang diizinkan: ", "admin, owner">> ])
    ELSE Undefined

\* the route: protect, authorize('admin', 'owner'), then the controller
RouteRoles == <<"admin", "owner">>

\* the response of the resetDeviceRateLimit controller
resetDeviceRateLimitResponse(deviceId, role) ==
    IF role # "admin" /\ role # "owner"
    THEN [status |-> 403, message |-> <<"Access denied">>]
    ELSE IF deviceId = NoValue \/ ~ validateDeviceId(deviceId)
    THEN [status |-> 400, message |-> <<"Invalid device ID">>]
    ELSE [status |-> 200, message |-> <<"Device rate limit reset requested">>]

resetDeviceRateLimit(deviceId, role) ==
    /\ last.op = "middleware" /\ last.nextCalls = 1
    /\ LET refused == authorize(RouteRoles, role)
           response == IF refused # Undefined THEN refused[1]
                       ELSE resetDeviceRateLimitResponse(deviceId, role)
       IN last' = [ op |-> "resetEndpoint", deviceId |-> deviceId, role |-> role,
                    status |-> response.status, message |-> response.message ]
    /\ UNCHANGED <<config, store, cleanupInterval, hist, clock>>

ResetDeviceRateLimit ==
    \E deviceId \in AdminIds : \E role \in Roles : resetDeviceRateLimit(deviceId, role)

----------------------------------------------------------------------------
(* The sweep timer of DeviceRateLimitStore and the passing of time.  The   *)
(* origin of the modelled clock is an arbitrary moment of the process, so  *)
(* the 60 s interval may fire at any tick.                                 *)

Cleanup ==
    /\ cleanupInterval
    /\ store' = cleanup(store, clock)
    /\ hist' = [k \in DOMAIN store' |-> hist[k]]
    /\ last' = [ op |-> "cleanup", at |-> clock,
                 swept |-> Cardinality(DOMAIN store \ DOMAIN store') ]
    /\ UNCHANGED <<config, cleanupInterval, clock>>

\* DeviceRateLimit.destroy -> DeviceRateLimitStore.destroy
destroy ==
    /\ cleanupInterval' = FALSE
    /\ store' = EmptyMap
    /\ hist' = EmptyMap
    /\ last' = [op |-> "destroy"]
    /\ UNCHANGED <<config, clock>>

Destroy ==
    /\ "destroy" \in members
    /\ destroy

Tick ==
    /\ InTime(1)
    /\ clock' = Now(1)
    /\ last' = [op |-> "tick"]
    /\ UNCHANGED <<config, store, cleanupInterval, hist>>

----------------------------------------------------------------------------

\* The application: requests pass the middleware, the device controller
\* serves the reset endpoint, the sweep timer fires.
Next ==
    \/ Middleware
    \/ ResetDeviceRateLimit
    \/ Cleanup
    \/ Tick

Spec == Init /\ [][Next]_vars

\* A held instance: requests pass its middleware and its holder calls the
\* other public methods.
InstanceNext ==
    \/ Middleware
    \/ ResetDevice
    \/ GetDeviceStatus
    \/ Cleanup
    \/ Destroy
    \/ Tick

InstanceSpec == InstanceInit /\ [][InstanceNext]_vars

----------------------------------------------------------------------------
(* Two devices on one held instance, each sending its id in X-Device-ID,   *)
(* as in the test "should handle different devices separately".            *)

TwoDevices == {IdA, IdB}

DeviceRequest ==
    /\ \E id \in TwoDevices : \E d1 \in 0..MaxSkew : \E d2 \in 0..MaxSkew :
          /\ InTime(d1 + d2)
          /\ middleware(Req(id, NoValue), d1, d2)
    /\ UNCHANGED <<config, cleanupInterval>>

DeviceReset == \E id \in TwoDevices : resetDevice(id)

DeviceStatus ==
    \E id \in TwoDevices : \E d1 \in 0..MaxSkew : \E d2 \in 0..MaxSkew :
        /\ InTime(d1 + d2)
        /\ getDeviceStatus(id, d1, d2)

DevicesNext ==
    \/ DeviceRequest
    \/ DeviceReset
    \/ DeviceStatus
    \/ Cleanup
    \/ Tick

DevicesSpec == InstanceInit /\ [][DevicesNext]_vars

----------------------------------------------------------------------------
(* src/utils/deviceId.ts: the identity the device controller reports *)

\* generateDeviceFingerprint of src/utils/deviceId.ts
utilsGenerateDeviceFingerprint(req) ==
    HexDigest(<<Header(req, "user-agent"), Header(req, "accept-language"),
                Header(req, "accept-encoding"), Header(req, "accept"),
                Header(req, "sec-ch-ua"), Header(req, "sec-ch-ua-platform"),
                <<IF req.ip # "" THEN req.ip ELSE req.remoteAddress>>>>, 24)

\* String.prototype.includes
Includes(s, w) == \E i \in 1..(Len(s) - Len(w) + 1) : SubSeq(s, i, i + Len(w) - 1) = w

PlatformUnknown == <<"u","n","k","n","o","w","n">>

extractPlatformFromUserAgent(userAgent) ==
    IF userAgent = NoValue THEN PlatformUnknown
    ELSE LET ua == LowerCase(userAgent)
         IN IF Includes(ua, <<"a","n","d","r","o","i","d">>) THEN <<"A","n","d","r","o","i","d">>
            ELSE IF Includes(ua, <<"i","p","h","o","n","e">>) \/ Includes(ua, <<"i","p","a","d">>) THEN <<"i","O","S">>
            ELSE IF Includes(ua, <<"w","i","n","d","o","w","s">>) THEN <<"W","i","n","d","o","w","s">>
            ELSE IF Includes(ua, <<"m","a","c","i","n","t","o","s","h">>) \/ Includes(ua, <<"m","a","c"," ","o","s">>)
                 THEN <<"m","a","c","O","S">>
            ELSE IF Includes(ua, <<"l","i","n","u","x">>) THEN <<"L","i","n","u","x">>
            ELSE IF Includes(ua, <<"c","h","r","o","m","e"," ","o","s">>) THEN <<"C","h","r","o","m","e"," ","O","S">>
            ELSE PlatformUnknown

UtilDeviceIdHeaders == <<"x-device-id", "device-id">>

\* extractDeviceInfo() that takes the first header value present, valid or not
RECURSIVE extractInfoFrom_unvalidated(_, _, _)
extractInfoFrom_unvalidated(req, headers, i) ==
    IF i > Len(headers) THEN NoValue
    ELSE LET headerValue == Header(req, headers[i])
         IN IF headerValue # NoValue THEN headerValue
            ELSE extractInfoFrom_unvalidated(req, headers, i + 1)

\* the loop of extractDeviceInfo: the first header with a valid value
RECURSIVE extractInfoFrom(_, _, _)
extractInfoFrom(req, headers, i) ==
    IF i > Len(headers) THEN NoValue
    ELSE LET headerValue == Header(req, headers[i])
         IN IF headerValue # NoValue /\ validateDeviceId(headerValue) THEN headerValue
            ELSE extractInfoFrom(req, headers, i + 1)

extractDeviceInfo(req, deviceIdHeaders) ==
    LET found == extractInfoFrom(req, deviceIdHeaders, 1)
        source == IF found = NoValue THEN "fingerprint" ELSE "header"
        deviceId == IF found = NoValue THEN utilsGenerateDeviceFingerprint(req) ELSE found
    IN [ deviceId |-> deviceId,
         fingerprint |-> utilsGenerateDeviceFingerprint(req),
         userAgent |-> Header(req, "user-agent"),
         platform |-> IF Header(req, "sec-ch-ua-platform") # NoValue
                      THEN Header(req, "sec-ch-ua-platform")
                      ELSE extractPlatformFromUserAgent(Header(req, "user-agent")),
         isValid |-> source = "header" /\ validateDeviceId(deviceId),
         source |-> source ]

----------------------------------------------------------------------------
(* Identity resolution on single requests: the functions of the admission  *)
(* policy and of src/utils/deviceId.ts applied to one request each.  The   *)
(* candidate headers of a request hold any of the sample values.           *)

IdDotted == <<"c","l","i","e","n","t",".","w","e","b",".","2","0","2","4",".","0","0","1">>
IdDigits == <<"1","2","3","4","5","6","7","8">>

\* absent, valid for both validators, valid for validateDeviceId only (a
\* dot), valid for isValidDeviceId only (digits)
HeaderValues == {NoValue, IdA, IdDotted, IdDigits}

\* requests that send up to MaxIdHeaders of the candidate headers
IdentityRequests ==
    { [ headers |-> hs, ip |-> ProxyIp, remoteAddress |-> RemoteAddress ] :
        hs \in { f \in [HeaderNames -> HeaderValues] :
                   Cardinality({ h \in HeaderNames : f[h] # NoValue }) <= MaxIdHeaders } }

\* the limiter of the application and one constructed with the default headers
IdentityInit ==
    \E made \in { createDeviceRateLimit(AppOptions(WindowMs, MaxRequests, FALSE, TRUE)),
                  newDeviceRateLimit(BareOptions(Given(WindowMs), Given(MaxRequests))) } :
        Constructed(made)

IdLetters == <<"a","b","c","d","e","f","g","h">>
IdMobile == <<"d","e","v","i","c","e","_","1","2","3","4","5","_","m","o","b","i","l","e">>
IdTest == <<"t","e","s","t">>
IdOnes == <<"1","1","1","1","1","1","1","1">>
IdAs == <<"a","a","a","a","a","a","a","a">>
IdMixedAs == <<"a","A","a","A","a","A","a","A">>
IdPassword == <<"p","a","s","s","w","o","r","d">>
IdUndefined == <<"u","n","d","e","f","i","n","e","d">>
IdLongDigits == <<"1","2","3","4","5","6","7","8","9","0","1">>
IdSeven == <<"a","b","c","d","e","f","g">>
IdSymbols == <<"!","@","#","$","%","^","&","*","(",")">>

\* an alphanumeric string of n characters
Alphanumeric(n) == [i \in 1..n |-> IF i % 2 = 1 THEN "a" ELSE "7"]

\* the values validateDeviceId is applied to
SampleValues ==
    { JsString(id) : id \in { NoValue, IdA, IdB, IdShort, IdDotted, IdDigits, IdLetters,
                              IdMobile, IdTest, IdOnes, IdAs, IdMixedAs, IdPassword,
                              IdUndefined, IdLongDigits, IdSeven, IdSymbols,
                              Alphanumeric(128), Alphanumeric(129) } }
      \cup { JsUndefined, JsNull, JsObject, JsNumber(<<"0">>), JsNumber(IdLongDigits) }

ValidateDeviceId ==
    /\ \E v \in SampleValues :
          last' = [ op |-> "validateDeviceId", value |-> v,
                    threw |-> FALSE, result |-> validateDeviceIdValue(v) ]
    /\ UNCHANGED <<config, store, cleanupInterval, hist, clock>>

IdFakeDevice == <<"f","a","k","e","-","d","e","v","i","c","e">>
IdNull == <<"n","u","l","l">>
IdScript == <<"<","s","c","r","i","p","t",">","a","l","e","r","t","(","1",")","<","/","s","c","r","i","p","t",">">>
\* 'a'.repeat(200)
IdTooLong == [i \in 1..200 |-> "a"]

\* the ids the tests and the documentation list as invalid
DocumentedInvalid ==
    { IdTest, IdFakeDevice, IdOnes, IdNull, IdUndefined, IdScript, IdTooLong, IdSymbols, NoValue }

\* the deviceId of a request body: absent, a documented invalid id, or a valid one
BodyValues ==
    {JsUndefined} \cup { JsString(id) : id \in DocumentedInvalid \cup {IdA, IdDotted} }

UaAndroid == <<"M","o","z","i","l","l","a","/","5",".","0"," ","(","L","i","n","u","x",";"," ","A","n","d","r","o","i","d"," ","1","4",")">>
AcceptAny == <<"*","/","*">>
SignalNames == {"user-agent", "accept"}

\* requests without a device id header that differ in their signals
SignalRequests ==
    { [ headers |-> [h \in HeaderNames \cup SignalNames |->
                       IF h = "user-agent" THEN ua ELSE IF h = "accept" THEN accept
                       ELSE NoValue],
        ip |-> ProxyIp, remoteAddress |-> RemoteAddress ] :
        ua \in {NoValue, UaAndroid}, accept \in {NoValue, AcceptAny} }

\* fingerprint.substring(0, n)
Prefix(fingerprint, n) ==
    HexDigest(fingerprint[3], IF n < HexLength(fingerprint) THEN n ELSE HexLength(fingerprint))

\* the validateDevice controller (POST /api/device/validate)
validateDevice(req, deviceId) ==
    IF Falsy(deviceId)
    THEN [ op |-> "validateDevice", req |-> req, deviceId |-> deviceId, status |-> 400,
           message |-> "Device ID is required" ]
    ELSE LET isValid == validateDeviceIdValue(deviceId)
             deviceInfo == extractDeviceInfo(req, UtilDeviceIdHeaders)
         IN [ op |-> "validateDevice", req |-> req, deviceId |-> deviceId, status |-> 200,
              message |-> "Device validation completed",
              isValid |-> isValid,
              deviceInfo |-> [ platform |-> deviceInfo.platform,
                               source |-> deviceInfo.source,
                               fingerprint |-> Prefix(deviceInfo.fingerprint, 8) ],
              recommendations |-> IF isValid THEN 0 ELSE 4 ]

ValidateDevice ==
    /\ \E req \in SignalRequests, deviceId \in BodyValues :
          last' = validateDevice(req, deviceId)
    /\ UNCHANGED <<config, store, cleanupInterval, hist, clock>>

\* the fingerprint branch of defaultKeyGenerator applied to a request, next
\* to the fingerprint src/utils/deviceId.ts computes for the same request
GenerateDeviceFingerprint ==
    /\ \E req \in SignalRequests :
          LET fingerprint == generateDeviceFingerprint(options, req)
          IN last' = [ op |-> "generateDeviceFingerprint", req |-> req,
                       fingerprint |-> fingerprint,
                       key |-> Key("fingerprint", fingerprint),
                       reported |-> utilsGenerateDeviceFingerprint(req) ]
    /\ UNCHANGED <<config, store, cleanupInterval, hist, clock>>

\* requests with a value in the headers extractDeviceInfo reads by default,
\* and requests without any device id header
InfoRequests ==
    { req \in IdentityRequests :
        req.headers["x-client-id"] = NoValue /\ req.headers["client-id"] = NoValue }
      \cup SignalRequests

ExtractDeviceInfo ==
    /\ \E req \in InfoRequests :
          last' = [ op |-> "extractDeviceInfo", req |-> req, headers |-> UtilDeviceIdHeaders,
                    threw |-> FALSE, info |-> extractDeviceInfo(req, UtilDeviceIdHeaders) ]
    /\ UNCHANGED <<config, store, cleanupInterval, hist, clock>>

\* the key the admission policy derives for a request
DefaultKeyGenerator ==
    /\ \E req \in IdentityRequests :
          LET kg == defaultKeyGenerator(options, req)
          IN last' = [ op |-> "defaultKeyGenerator", req |-> req,
                       threw |-> kg.threw, key |-> kg.key, deviceId |-> kg.deviceId ]
    /\ UNCHANGED <<config, store, cleanupInterval, hist, clock>>

\* GET /api/device/info: the request passes the admission middleware, which
\* derives its key, and then the getDeviceInfo controller, which reports the
\* identity extractDeviceInfo(req) resolves with its default headers
GetDeviceInfo ==
    /\ \E req \in IdentityRequests :
          LET kg == defaultKeyGenerator(options, req)
              deviceInfo == extractDeviceInfo(req, UtilDeviceIdHeaders)
          IN /\ ~ kg.threw
             /\ last' = [ op |-> "getDeviceInfo", req |-> req, key |-> kg.key, status |-> 200,
                          device |-> [ id |-> deviceInfo.deviceId,
                                       isValid |-> deviceInfo.isValid,
                                       source |-> deviceInfo.source,
                                       platform |-> deviceInfo.platform,
                                       userAgent |-> deviceInfo.userAgent ],
                          fingerprint |-> Prefix(deviceInfo.fingerprint, 12) ]
    /\ UNCHANGED <<config, store, cleanupInterval, hist, clock>>

ExtractDeviceId ==
    /\ \E req \in IdentityRequests :
          last' = [ op |-> "extractDeviceId", req |-> req,
                    deviceId |-> extractDeviceId(options, req) ]
    /\ UNCHANGED <<config, store, cleanupInterval, hist, clock>>

IdentityNext ==
    \/ ExtractDeviceId
    \/ ValidateDeviceId
    \/ ValidateDevice
    \/ GenerateDeviceFingerprint
    \/ ExtractDeviceInfo
    \/ DefaultKeyGenerator
    \/ GetDeviceInfo

IdentitySpec == IdentityInit /\ [][IdentityNext]_vars

----------------------------------------------------------------------------
(* A limiter whose onLimitReached callback may throw, or whose denial       *)
(* response cannot be written.  Both calls stand inside the try block of   *)
(* the middleware, after the increment; the catch block ends with next().  *)

DenialFaults == {"onLimitReached", "json"}

\* the middleware on a request over the limit, when `fault` throws
middlewareDenialFault(req, d1, fault) ==
    LET kg == defaultKeyGenerator(options, req)
        key == kg.key
        inc == increment(store, options.windowMs, key, Now(0), Now(d1))
        entry == inc.entry
        rem == remaining(options, entry)
        before == IF inc.created THEN <<>> ELSE hist[key]
    IN /\ fault \in DenialFaults
       /\ ~ kg.threw
       /\ entry.count <= MaxCount
       /\ rateLimitExceeded(options, entry)
       /\ store' = inc.store
       /\ hist' = [k \in DOMAIN inc.store |->
                     IF k = key THEN Append(before, Decision(entry.count, TRUE))
                     ELSE hist[k]]
       /\ clock' = Now(d1)
       /\ last' = [ op |-> "middleware", req |-> req, key |-> key,
                    count |-> entry.count, remaining |-> rem,
                    headers |-> RateLimitHeaders(entry, rem),
                    outcome |-> "failopen", status |-> 0, nextCalls |-> 1 ]

DeviceRequestFault ==
    /\ \E id \in TwoDevices : \E d1 \in 0..MaxSkew : \E fault \in DenialFaults :
          /\ InTime(d1)
          /\ middlewareDenialFault(Req(id, NoValue), d1, fault)
    /\ UNCHANGED <<config, cleanupInterval>>

CallbackNext ==
    \/ DeviceRequest
    \/ DeviceRequestFault
    \/ Tick

CallbackSpec == InstanceInit /\ [][CallbackNext]_vars

----------------------------------------------------------------------------
(* Clients that only ask for their quota status, GET /api/device/rate-limit. *)
(* src/app.ts mounts the admission middleware with app.use() before every   *)
(* route, the device routes included: a status query passes the middleware *)
(* and then the getDeviceRateLimit controller.                              *)

StatusRequests == { Req(IdA, NoValue), Req(NoValue, NoValue) }

StatusQuery ==
    /\ \E req \in StatusRequests : \E d1 \in 0..MaxSkew : \E d2 \in 0..MaxSkew :
          /\ InTime(d1 + d2)
          /\ middleware(req, d1, d2)
    /\ UNCHANGED <<config, cleanupInterval>>

\* the getDeviceRateLimit controller, on the request the middleware forwarded
getDeviceRateLimit ==
    /\ last.op = "middleware" /\ last.nextCalls = 1
    /\ LET deviceInfo == extractDeviceInfo(last.req, UtilDeviceIdHeaders)
       IN last' = [ op |-> "getDeviceRateLimit", req |-> last.req, status |-> 200,
                    device |-> [ id |-> deviceInfo.deviceId,
                                 isValid |-> deviceInfo.isValid,
                                 source |-> deviceInfo.source ],
                    rateLimit |-> [ deviceId |-> IF last.deviceId = NoValue
                                                 THEN <<"unknown">> ELSE last.deviceId,
                                    remaining |-> last.remaining,
                                    resetTime |-> last.resetTime,
                                    total |-> options.maxRequests ],
                    headers |-> last.headers ]
    /\ UNCHANGED <<config, store, cleanupInterval, hist, clock>>

StatusNext ==
    \/ StatusQuery
    \/ getDeviceRateLimit
    \/ Tick

StatusSpec == Init /\ [][StatusNext]_vars

----------------------------------------------------------------------------
(* Properties *)

IsDecision(l) == l.op = "middleware" /\ l.outcome \in {"next", "denied"}

SampleDeviceIds == {IdA, IdB, IdShort}

\* C1: the requests that called increment(key) on the stored entry got the
\* counts 1..N, each exactly once and in that order, and the stored count is
\* N: no increment is lost, whatever the order of the requests.
NoLostIncrement ==
    \A k \in DOMAIN store :
        /\ k \in DOMAIN hist
        /\ Len(hist[k]) = store[k].count
        /\ \A i \in 1..Len(hist[k]) : hist[k][i].count = i

NoLostIncrementWitness ==
    \E k \in DOMAIN store : store[k].count >= 3 /\ Len(hist[k]) >= 3

\* C2: a request is forwarded iff the count its own increment returned is
\* <= maxRequests, so no entry (no key in no window) has more than
\* maxRequests forwarded requests.
AllowedIffWithinLimit ==
    /\ IsDecision(last) =>
          /\ (last.outcome = "next") <=> (last.count <= options.maxRequests)
          /\ last.nextCalls = (IF last.count <= options.maxRequests THEN 1 ELSE 0)
    /\ \A k \in DOMAIN hist :
          /\ \A i \in DOMAIN hist[k] :
                hist[k][i].allowed <=> (hist[k][i].count <= options.maxRequests)
          /\ Cardinality({ i \in DOMAIN hist[k] : hist[k][i].allowed }) <= options.maxRequests

AllowedIffWithinLimitWitness ==
    /\ IsDecision(last) /\ last.outcome = "denied"
    /\ Cardinality({ i \in DOMAIN hist[last.key] : hist[last.key][i].allowed })
          = options.maxRequests

\* C3: the i-th request of a window is allowed with remaining M - i for
\* i <= M and denied for i > M; a request issued after the window's end is
\* the first of a new window, allowed with remaining M - 1, whatever the
\* count of the old window.
QuotaSequenceStep ==
    (IsDecision(last') /\ last'.key \in DOMAIN store /\ clock > store[last'.key].resetTime)
        => (last'.count = 1 /\ last'.outcome = "next"
            /\ last'.remaining = options.maxRequests - 1)

QuotaSequence ==
    /\ [](IsDecision(last) =>
            /\ last.count = Len(hist[last.key])
            /\ (last.count <= options.maxRequests) =>
                  (last.outcome = "next" /\ last.remaining = options.maxRequests - last.count)
            /\ (last.count > options.maxRequests) => last.outcome = "denied")
    /\ [][QuotaSequenceStep]_vars

QuotaSequenceWitness ==
    /\ IsDecision(last) /\ last.created /\ last.outcome = "next"
    /\ last.replaced > options.maxRequests + 1

NewEntryOf(k) ==
    /\ IsDecision(last') /\ last'.key = k /\ last'.created /\ last'.count = 1
    /\ store'[k] = [count |-> 1, firstRequest |-> clock, resetTime |-> clock + options.windowMs]

ExpiredEntryReplacedStep ==
    \A k \in DOMAIN store \cup DOMAIN store' :
        /\ (k \in DOMAIN store /\ k \in DOMAIN store' /\ clock > store[k].resetTime
               /\ store'[k] # store[k]) => NewEntryOf(k)
        /\ (k \notin DOMAIN store /\ k \in DOMAIN store') => NewEntryOf(k)
        /\ (k \in DOMAIN store /\ k \notin DOMAIN store') =>
              \/ last'.op = "resetDevice" /\ k = Key("device", last'.deviceId)
              \/ last'.op = "cleanup" /\ last'.at > store[k].resetTime
              \/ last'.op = "status" /\ k = Key("device", last'.deviceId)
                    /\ last'.checkedAt > store[k].resetTime
              \/ last'.op = "destroy"

ExpiredEntryReplaced == [][ExpiredEntryReplacedStep]_vars

ExpiredEntryReplacedWitness ==
    IsDecision(last) /\ last.created /\ last.replaced >= 1 /\ last.count = 1

\* C6: a read of key at time t (by get, increment or a status query) finds
\* the stored entry if t <= windowEnd, and deletes it and finds nothing if
\* t > windowEnd; so no read after windowEnd sees the old count, swept or not.
Reads(l, k) ==
    \/ IsDecision(l) /\ l.key = k
    \/ l.op = "status" /\ Key("device", l.deviceId) = k

LazyExpiryStep ==
    \A k \in DOMAIN store :
        Reads(last', k) =>
            /\ IF last'.checkedAt <= store[k].resetTime
               THEN /\ k \in DOMAIN store'
                    /\ (last'.op = "middleware") =>
                          (~ last'.created /\ last'.count = store[k].count + 1)
                    /\ (last'.op = "status") =>
                          (last'.found /\ last'.count = store[k].count /\ store'[k] = store[k])
               ELSE /\ (last'.op = "middleware") => (last'.created /\ last'.count = 1)
                    /\ (last'.op = "status") =>
                          (~ last'.found /\ last'.count = 0 /\ k \notin DOMAIN store')
            /\ (clock > store[k].resetTime) =>
                  last'.count = (IF last'.op = "middleware" THEN 1 ELSE 0)

LazyExpiry == [][LazyExpiryStep]_vars

LazyExpiryWitness ==
    last.op = "status" /\ last.expired /\ ~ last.found
        /\ Key("device", last.deviceId) \notin DOMAIN store

\* C7: every stored entry has windowEnd = windowStart + windowMs and
\* count >= 1; a request inside the window adds exactly 1 to count and
\* leaves the window where it is, allowed or denied.
WindowInvariantStep ==
    \A k \in DOMAIN store \cap DOMAIN store' :
        /\ (store'[k] # store[k]) =>
              /\ IsDecision(last') /\ last'.key = k
              /\ \/ last'.created
                 \/ store'[k] = [store[k] EXCEPT !.count = @ + 1]
        /\ (IsDecision(last') /\ last'.key = k /\ ~ last'.created) =>
              /\ store'[k] = [store[k] EXCEPT !.count = @ + 1]
              /\ last'.count = store[k].count + 1
              /\ last'.resetTime = store[k].resetTime

WindowInvariant ==
    /\ [](\A k \in DOMAIN store :
            /\ store[k].resetTime = store[k].firstRequest + options.windowMs
            /\ store[k].count >= 1)
    /\ [][WindowInvariantStep]_vars

WindowInvariantWitness ==
    /\ IsDecision(last) /\ last.outcome = "denied"
    /\ last.checkedAt > store[last.key].firstRequest
    /\ store[last.key].count > options.maxRequests + 1

\* C8: after resetDevice(id) the key device:<id> has no entry, and the
\* request that next creates one is allowed with remaining = maxRequests - 1.
ResetRestoresQuotaStep ==
    \A id \in SampleDeviceIds :
        LET k == Key("device", id)
        IN (k \notin DOMAIN store) =>
              \/ k \notin DOMAIN store'
              \/ /\ IsDecision(last') /\ last'.key = k /\ last'.deviceId = id
                 /\ last'.outcome = "next" /\ last'.count = 1
                 /\ last'.remaining = options.maxRequests - 1

ResetRestoresQuota ==
    /\ [](last.op = "resetDevice" => Key("device", last.deviceId) \notin DOMAIN store)
    /\ [][ResetRestoresQuotaStep]_vars

ResetRestoresQuotaWitness ==
    last.op = "resetDevice" /\ last.removed > options.maxRequests

\* C9: once the reset endpoint has answered an admin or owner with success,
\* the device's key has no entry in the store of the admission middleware.
EndpointResetsQuota ==
    (last.op = "resetEndpoint" /\ last.status = 200) =>
        Key("device", last.deviceId) \notin DOMAIN store

\* C10: a valid device id in some candidate header gives the key
\* device:<id> whatever requireDeviceId and fallbackToIp are; without one,
\* requireDeviceId = false and fallbackToIp = true give ip:<clientAddress>.
\* Every key of the store has the scope device, ip or fingerprint.
KeyPrecedence ==
    /\ (last.op = "middleware" /\ last.outcome # "failopen") =>
          LET req == last.req
              valid == { h \in Range(options.deviceIdHeaders) :
                           isValidDeviceId(req.headers[h]) }
          IN /\ (valid # {}) =>
                    /\ last.outcome # "required"
                    /\ last.key.scope = "device"
                    /\ \E h \in valid : last.key.id = req.headers[h]
             /\ (valid = {} /\ ~ options.requireDeviceId /\ options.fallbackToIp) =>
                    /\ last.outcome # "required"
                    /\ last.key.scope = "ip"
                    /\ last.key.id = <<IF options.trustProxy THEN req.ip ELSE req.remoteAddress>>
    /\ \A k \in DOMAIN store : k.scope \in {"device", "ip", "fingerprint"}

KeyPrecedenceWitness ==
    /\ IsDecision(last) /\ last.key.scope = "ip"
    /\ last.req.headers["x-device-id"] = IdShort
    /\ \E k \in DOMAIN store : k.scope = "device"

\* C11: when the constructor is given fallbackToIp = false and
\* requireDeviceId = false, a request without a valid device id header is
\* keyed fingerprint:<hash> and never ip:<addr>.
FingerprintWhenFallbackOff ==
    ( /\ given.fallbackToIp = Given(FALSE)
      /\ given.requireDeviceId = Given(FALSE)
      /\ IsDecision(last)
      /\ \A h \in Range(options.deviceIdHeaders) : ~ isValidDeviceId(last.req.headers[h]) )
        => last.key.scope = "fingerprint"

\* whether some candidate header of the request holds a valid device id
HasValidDeviceId(req) ==
    \E h \in Range(options.deviceIdHeaders) : isValidDeviceId(req.headers[h])

\* C12: with requireDeviceId = true, a request none of whose candidate
\* headers holds a valid device id ends with status 400 and the list of the
\* accepted headers, whatever fallbackToIp was given: next() is not called,
\* no key is derived and the store is left as it was.  No other request is
\* answered that way.
RequiredIdentityStep ==
    (last'.op = "middleware" /\ last'.outcome # "failopen"
        /\ options.requireDeviceId /\ ~ HasValidDeviceId(last'.req)) =>
            /\ last'.outcome = "required"
            /\ last'.status = 400
            /\ last'.nextCalls = 0
            /\ last'.requiredHeaders = options.deviceIdHeaders
            /\ store' = store
            /\ hist' = hist

RequiredIdentity ==
    /\ []((last.op = "middleware" /\ last.outcome = "required") =>
             (options.requireDeviceId /\ ~ HasValidDeviceId(last.req)))
    /\ [][RequiredIdentityStep]_vars

RequiredIdentityWitness ==
    /\ last.op = "middleware" /\ last.outcome = "required"
    /\ given.fallbackToIp = Given(FALSE)
    /\ last.req.headers["x-device-id"] = IdShort
    /\ store # EmptyMap

\* C13: a request during which the key generator or the store raises an
\* error other than the required-identity one is forwarded: next() is called
\* once, no status is set, and the counters are left as they were.
FailOpenStep ==
    (\E fault \in Faults : middlewareFault(fault)) =>
        /\ last'.op = "middleware"
        /\ last'.nextCalls = 1
        /\ last'.status = 0
        /\ store' = store
        /\ hist' = hist

RateLimitHeadersSent ==
    IsDecision(last) =>
        /\ DOMAIN last.headers = {"limit", "remaining", "reset", "window"}
        /\ last.headers.limit = options.maxRequests
        /\ last.headers.remaining = Max(0, options.maxRequests - last.count)
        /\ last.key \in DOMAIN store
        /\ last.count = store[last.key].count
        /\ last.headers.reset * 1000 >= store[last.key].resetTime
        /\ (last.headers.reset - 1) * 1000 < store[last.key].resetTime
        /\ last.headers.window = options.windowMs

RateLimitHeadersSentWitness ==
    /\ IsDecision(last) /\ last.outcome = "denied"
    /\ last.resetTime % 1000 # 0
    /\ last.headers.remaining = 0

\* C15: on every denial retryAfter is ceil((windowEnd - now) / 1000) for the
\* time now at which the denial is rendered, and it is greater than 0.
RetryAfterPositive ==
    (IsDecision(last) /\ last.outcome = "denied") =>
        /\ last.retryAfter = CeilDiv1000(store[last.key].resetTime - clock)
        /\ last.retryAfter > 0

\* C16: resetDevice(deviceId) with a deviceId that validateDeviceId refuses
\* is rejected with an error and is never silently accepted.
ResetDeviceRejectsInvalid ==
    (last.op = "resetDevice" /\ ~ validateDeviceId(last.deviceId)) => last.threw

\* C17: getDeviceStatus(id) creates no entry and leaves every entry that is
\* not expired when it reads the clock as it was.  For device:<id> with no
\* entry or an expired one it returns count 0 and remaining maxRequests; for
\* an active entry it returns its count, max(0, maxRequests - count) and its
\* windowEnd.
StatusReadOnlyStep ==
    (last'.op = "status") =>
        LET key == Key("device", last'.deviceId)
            active == key \in DOMAIN store /\ last'.checkedAt <= store[key].resetTime
        IN /\ DOMAIN store' \subseteq DOMAIN store
           /\ \A k \in DOMAIN store :
                 (k # key \/ active) => (k \in DOMAIN store' /\ store'[k] = store[k])
           /\ last'.found = active
           /\ IF active
              THEN /\ last'.count = store[key].count
                   /\ last'.remaining = Max(0, options.maxRequests - store[key].count)
                   /\ last'.resetTime = store[key].resetTime
              ELSE /\ last'.count = 0
                   /\ last'.remaining = options.maxRequests

StatusReadOnly == [][StatusReadOnlyStep]_vars

StatusReadOnlyWitness ==
    /\ last.op = "status" /\ last.found
    /\ last.count > options.maxRequests /\ last.remaining = 0
    /\ store[Key("device", last.deviceId)].count = last.count
    /\ Cardinality(DOMAIN store) = 2

\* C18: a sweep at time t removes every entry with t > windowEnd and no
\* entry with t <= windowEnd, and leaves the entries it keeps, and the
\* decisions counted on them, as they were, wherever it falls between
\* requests, status queries and resets.
SweepStep ==
    (last'.op = "cleanup") =>
        /\ last'.at = clock
        /\ DOMAIN store' = { k \in DOMAIN store : clock <= store[k].resetTime }
        /\ \A k \in DOMAIN store' : store'[k] = store[k] /\ hist'[k] = hist[k]
        /\ last'.swept = Cardinality({ k \in DOMAIN store : clock > store[k].resetTime })

SweepRemovesExpiredOnly == [][SweepStep]_vars

SweepRemovesExpiredOnlyWitness ==
    /\ last.op = "cleanup" /\ last.swept = 1
    /\ \E k \in DOMAIN store : store[k].resetTime = last.at /\ store[k].count >= 2

\* C19: the sweep timer of every store the application creates can be
\* stopped by its owner: as long as the timer is armed, the code that created
\* the limiter holds its destroy().
TimerCancelableByOwner == cleanupInterval => "destroy" \in members

\* C20: a request, a reset or a status query changes no entry but the one of
\* its own key: every other key keeps its count and window and no other key
\* appears.  A device id is counted under device:<id>, its own key, and the
\* first request on a key without a live entry gets count 1 and
\* max(0, maxRequests - 1) remaining, whatever the other keys hold.
TouchedKeys(l) ==
    IF IsDecision(l) THEN {l.key}
    ELSE IF l.op \in {"resetDevice", "status"} THEN {Key("device", l.deviceId)}
    ELSE {}

IndependentKeysStep ==
    (last'.op \in {"middleware", "resetDevice", "status"}) =>
        /\ \A k \in DOMAIN store \ TouchedKeys(last') :
              k \in DOMAIN store' /\ store'[k] = store[k]
        /\ DOMAIN store' \ TouchedKeys(last') \subseteq DOMAIN store
        /\ IsDecision(last') =>
              /\ (last'.deviceId # NoValue) => last'.key = Key("device", last'.deviceId)
              /\ last'.created =>
                    /\ last'.count = 1
                    /\ last'.remaining = Max(0, options.maxRequests - 1)

IndependentKeys == [][IndependentKeysStep]_vars

IndependentKeysWitness ==
    /\ IsDecision(last) /\ last.deviceId = IdB
    /\ last.count = 1 /\ last.outcome = "next"
    /\ Key("device", IdA) \in DOMAIN store
    /\ store[Key("device", IdA)].count > options.maxRequests

\* C21: extractDeviceId returns the value of the first header, in the
\* configured order, whose value is valid: an invalid value in an earlier
\* header does not hide a valid one in a later header, and nothing is
\* returned only when no configured header holds a valid value.
FirstValidHeader ==
    (last.op = "extractDeviceId") =>
        LET hs == options.deviceIdHeaders
            valid == { i \in DOMAIN hs : isValidDeviceId(last.req.headers[hs[i]]) }
        IN IF valid = {}
           THEN last.deviceId = NoValue
           ELSE \E i \in valid :
                   /\ \A j \in valid : i <= j
                   /\ last.deviceId = last.req.headers[hs[i]]

FirstValidHeaderWitness ==
    /\ last.op = "extractDeviceId"
    /\ last.req.headers["x-device-id"] = IdDotted
    /\ last.req.headers["device-id"] = NoValue
    /\ last.req.headers["x-client-id"] = IdA
    /\ last.deviceId = IdA

\* the characters validateDeviceId allows and the words it refuses, written
\* out independently of the validator
AllowedChar(c) ==
    \/ c \in Range(UpperChars) \/ c \in Range(LowerChars) \/ c \in Range(DigitChars)
    \/ c \in {"-", "_", "."}
PlaceholderWord(s) == LowerCase(s) \in UtilWords \cup CommonWords
DigitsOnly(s) == \A i \in DOMAIN s : s[i] \in Range(DigitChars)
OneCharacterRun(s) == Cardinality(Range(s)) = 1
\* a run of one of a, z, x in either case (0 and 1 have one case only)
OneLetterRunAnyCase(s) == Cardinality(Range(LowerCase(s))) = 1 /\ ToLower(s[1]) \in {"a", "z", "x"}
WellFormed(v) ==
    /\ v.typeof = "string"
    /\ Len(v.value) >= 8 /\ Len(v.value) <= 128
    /\ \A i \in DOMAIN v.value : AllowedChar(v.value[i])

\* C22 as stated: valid exactly for the well-formed strings that are not a run
\* of one repeated character, a placeholder word or a digits-only value.
ValidExactlyAsStated ==
    (last.op = "validateDeviceId") =>
        /\ ~ last.threw
        /\ last.result =
              ( /\ WellFormed(last.value)
                /\ ~ OneCharacterRun(last.value.value)
                /\ ~ PlaceholderWord(last.value.value)
                /\ ~ DigitsOnly(last.value.value) )

\* C22: validateDeviceId returns true exactly for strings of length 8 to 128
\* built only from letters, digits, hyphen, underscore and dot that are not a
\* run of one repeated character (a, z and x compared without case), not a
\* placeholder word and not a digits-only value of at most 10 digits; it
\* returns false without throwing for every other input, including empty and
\* non-string values.  'abcdefgh' and 'device_12345_mobile' are valid; 'test',
\* '11111111', 'aaaaaaaa' and a 129-character alphanumeric string are not.
ValidExactly ==
    (last.op = "validateDeviceId") =>
        /\ ~ last.threw
        /\ last.result =
              ( /\ WellFormed(last.value)
                /\ ~ OneCharacterRun(last.value.value)
                /\ ~ OneLetterRunAnyCase(last.value.value)
                /\ ~ PlaceholderWord(last.value.value)
                /\ ~ (DigitsOnly(last.value.value) /\ Len(last.value.value) <= 10) )
        /\ last.value \in {JsString(IdLetters), JsString(IdMobile)} => last.result
        /\ last.value \in {JsString(IdTest), JsString(IdOnes), JsString(IdAs),
                           JsString(Alphanumeric(129))} => ~ last.result

\* a digits-only value of 11 digits is accepted
ValidExactlyWitness ==
    /\ last.op = "validateDeviceId"
    /\ last.value = JsString(IdLongDigits)
    /\ last.result

\* C23: the validate operation reports isValid = false for every non-empty id
\* of the documented invalid set, 'fake-device' included.
DocumentedInvalidReported ==
    (last.op = "validateDevice" /\ last.deviceId.typeof = "string"
        /\ last.deviceId.value \in DocumentedInvalid \ {NoValue}) =>
        (last.status = 200 /\ ~ last.isValid)

\* the signals of a request the fingerprint is said to depend on
Signals(req) ==
    <<Header(req, "user-agent"), Header(req, "accept-language"),
      Header(req, "accept-encoding"), Header(req, "accept"), getClientIp(options, req)>>

\* C24: two requests with equal signals get the same fingerprint, and the
\* fingerprint of a fingerprint:<hash> key is 24 hexadecimal characters long.
FingerprintDeterministic24Hex ==
    (last.op = "generateDeviceFingerprint") =>
        /\ \A req \in SignalRequests :
              Signals(req) = Signals(last.req) =>
                  generateDeviceFingerprint(options, req) = last.fingerprint
        /\ last.key.scope = "fingerprint"
        /\ HexLength(last.key.id) = 24

\* C25: extractDeviceInfo returns for every request an identity: with source
\* 'header', isValid = true and the value of the first candidate header that
\* holds a valid device id when there is one, and otherwise with source
\* 'fingerprint', isValid = false and the fingerprint of the request as its
\* id.  An invalid header value is never returned as the device id.
IdentityAlwaysResolved ==
    (last.op = "extractDeviceInfo") =>
        LET hs == last.headers
            valid == { i \in DOMAIN hs : validateDeviceId(Header(last.req, hs[i])) }
            info == last.info
        IN /\ ~ last.threw
           /\ IF valid # {}
              THEN /\ info.source = "header" /\ info.isValid
                   /\ \E i \in valid : /\ \A j \in valid : i <= j
                                       /\ info.deviceId = Header(last.req, hs[i])
              ELSE /\ info.source = "fingerprint" /\ ~ info.isValid
                   /\ info.deviceId = info.fingerprint
                   /\ info.deviceId[1] = "sha256"
                   /\ \A i \in DOMAIN hs : info.deviceId # Header(last.req, hs[i])

\* an invalid value in the first header, none in the second: the identity is
\* the fingerprint and the invalid value is not returned
IdentityAlwaysResolvedWitness ==
    /\ last.op = "extractDeviceInfo"
    /\ Header(last.req, "x-device-id") = IdDigits
    /\ Header(last.req, "device-id") = NoValue
    /\ last.info.source = "fingerprint"
    /\ ~ last.info.isValid

\* C26: a reset request of an authenticated caller whose role is neither
\* admin nor owner is answered 403 with a message containing 'Access denied'.
NonAdminResetAccessDenied ==
    (last.op = "resetEndpoint" /\ last.role \notin {"admin", "owner"}) =>
        /\ last.status = 403
        /\ "Access denied" \in Range(last.message)

\* C27: a request handled by the middleware ends in exactly one of the denial
\* response, the identity-required response and one call of next(), and a
\* request whose incremented count exceeds maxRequests is not forwarded to
\* next(), whatever the notification or the response write does.
OneOutcomeNeverForwardedOverLimit ==
    (last.op = "middleware") =>
        /\ (IF last.outcome \in {"denied", "required"} THEN 1 ELSE 0) + last.nextCalls = 1
        /\ ("count" \in DOMAIN last /\ last.count > options.maxRequests) =>
              last.nextCalls = 0

\* C28: a device id validateDeviceId accepts, sent in a candidate header with
\* no other device id header beside it, is keyed device:<id> by the admission
\* policy, and every id the policy keys as device:<id> is accepted by
\* validateDeviceId.
ValidatorsAgree ==
    (last.op = "defaultKeyGenerator") =>
        /\ \A h \in Range(options.deviceIdHeaders) :
              ( /\ validateDeviceId(last.req.headers[h])
                /\ \A g \in HeaderNames \ {h} : last.req.headers[g] = NoValue )
                  => last.key = Key("device", last.req.headers[h])
        /\ last.key.scope = "device" => validateDeviceId(last.key.id)

\* C29: the identity the device-info operation reports is the identity the
\* admission policy of the application counted the request under: for a
\* request whose candidate headers (X-Device-ID, Device-ID, X-Client-ID,
\* Client-ID) hold nothing or an id both validators accept, the report has
\* source 'header' exactly when the key is device:<id>, and then it names
\* that id.
ReportedIdentityIsCountedIdentity ==
    ( /\ last.op = "getDeviceInfo"
      /\ options.deviceIdHeaders = AppDeviceIdHeaders
      /\ \A h \in HeaderNames : last.req.headers[h] \in {NoValue, IdA} ) =>
        /\ (last.device.source = "header") <=> (last.key.scope = "device")
        /\ (last.key.scope = "device") => (last.device.id = last.key.id)

\* C30: status queries are read-only with respect to the quota: when clients
\* send nothing but GET /api/device/rate-limit, no count is kept for them, the
\* remaining quota reported stays maxRequests and no query is denied.
StatusQueriesLeaveQuota ==
    /\ \A k \in DOMAIN store : store[k].count = 0
    /\ (last.op = "getDeviceRateLimit") => last.rateLimit.remaining = options.maxRequests
    /\ (last.op = "middleware") => last.outcome # "denied"

====
